---- MODULE Spec2Model ----
(***************************************************************************)
(* Model of bin/extract-amplicon.py: parse_bed_file, extract_mapped_reads, *)
(* trim_mapped_reads, write_mapped_reads_to_bam and main.                  *)
(*                                                                         *)
(* Text is a sequence of tokens (a token stands for a run of characters),  *)
(* so `x in name` is "x occurs as a contiguous run of name".  A Python     *)
(* name that is None holds <<>>, one that holds v holds <<v>>.  A read is a *)
(* record of the attributes the program uses; assigning one attribute      *)
(* leaves the others as they are.                                          *)
(***************************************************************************)
EXTENDS Integers, Sequences, FiniteSets, TLC

VARIABLES pc, err,
          bed, amplicon_name, line_no, ref, amplicon_start, amplicon_end,
          chrom, start, end,
          references, n_fetched, read, mapped_reads,
          trim_idx, trimmed_reads,
          output, printed

vars == <<pc, err, bed, amplicon_name, line_no, ref, amplicon_start, amplicon_end,
          chrom, start, end, references, n_fetched, read, mapped_reads,
          trim_idx, trimmed_reads, output, printed>>

bedVars == <<bed, amplicon_name, line_no, ref, amplicon_start, amplicon_end>>
bamVars == <<references, n_fetched, read, mapped_reads>>
trimVars == <<trim_idx, trimmed_reads>>
outVars == <<output, printed>>

----------------------------------------------------------------------------
(* Bounds *)

\* largest reference coordinate of an interval or a read
MaxCoord == 3
\* most reads one fetch yields
MaxReads == 2
\* most lines of a BED file
MaxBedLines == 3

----------------------------------------------------------------------------
(* Python values *)

None == <<>>
Some(v) == <<v>>
Val(o) == o[1]

Min(a, b) == IF a <= b THEN a ELSE b
Max(a, b) == IF a >= b THEN a ELSE b

\* s[k:] of Python, k of either sign
PySliceFrom(s, k) ==
    LET n == Len(s)
        lo == IF k < 0 THEN Max(n + k, 0) ELSE Min(k, n)
    IN  SubSeq(s, lo + 1, n)

\* s[:m] of Python, m of either sign
PySliceTo(s, m) ==
    LET n == Len(s)
        hi == IF m < 0 THEN Max(n + m, 0) ELSE Min(m, n)
    IN  SubSeq(s, 1, hi)

\* `sub in s` of Python on text
Contains(s, sub) ==
    \E i \in 0..(Len(s) - Len(sub)) : SubSeq(s, i + 1, i + Len(sub)) = sub

----------------------------------------------------------------------------
(* parse_bed_file *)

Whitespace == {"\t", "\n", " "}

RECURSIVE LStrip(_)
LStrip(s) == IF s # <<>> /\ Head(s) \in Whitespace THEN LStrip(Tail(s)) ELSE s

RECURSIVE RStrip(_)
RStrip(s) ==
    IF s # <<>> /\ s[Len(s)] \in Whitespace THEN RStrip(SubSeq(s, 1, Len(s) - 1)) ELSE s

\* line.strip()
Strip(s) == RStrip(LStrip(s))

\* s.split('\t'): the fields between the tabs; always at least one field
RECURSIVE Split(_)
Split(s) ==
    IF \A i \in 1..Len(s) : s[i] # "\t"
    THEN <<s>>
    ELSE LET p == CHOOSE i \in 1..Len(s) : s[i] = "\t" /\ \A k \in 1..(i - 1) : s[k] # "\t"
         IN  <<SubSeq(s, 1, p - 1)>> \o Split(SubSeq(s, p + 1, Len(s)))

\* a faulty variant: the slice takes four fields
BedFieldsFour(line) == LET f == Split(Strip(line)) IN SubSeq(f, 1, Min(4, Len(f)))

\* line.strip().split('\t')[0:3]
BedFields(line) == LET f == Split(Strip(line)) IN SubSeq(f, 1, Min(3, Len(f)))

\* chrom, start, end, name = <fields>: the unpacking needs exactly four values
UnpackOK(fields) == Len(fields) = 4

Digits == <<"0", "1", "2", "3", "4", "5", "6", "7", "8", "9">>
IsDigit(t) == \E d \in 1..10 : Digits[d] = t
DigitVal(t) == (CHOOSE d \in 1..10 : Digits[d] = t) - 1

\* int(text) accepts a non-empty run of digits
IntOK(text) == text # <<>> /\ \A i \in 1..Len(text) : IsDigit(text[i])

RECURSIVE IntOf(_)
IntOf(text) ==
    IF text = <<>> THEN 0
    ELSE 10 * IntOf(SubSeq(text, 1, Len(text) - 1)) + DigitVal(text[Len(text)])

\* the primer suffixes of the command line
FwdPrimer == <<"_LEFT">>
RevPrimer == <<"_RIGHT">>

\* all three of ref, amplicon_start, amplicon_end are set
AllSet(r, s, e) == r # None /\ s # None /\ e # None


\* the state left by `raise`: the exception reaches the top level
Raise(e) == pc' = "error" /\ err' = e

\* one iteration of `for line in bed` (lines 33-42)
ScanLine ==
    /\ pc = "parse_bed_file"
    /\ line_no < Len(bed)
    /\ line_no' = line_no + 1
    /\ LET fields == BedFields(bed[line_no + 1]) IN
       IF ~UnpackOK(fields)
       THEN /\ Raise("ValueError: not enough values to unpack")
            /\ UNCHANGED <<ref, amplicon_start, amplicon_end>>
       ELSE LET name == fields[4] IN
            IF Contains(name, amplicon_name) /\ Contains(name, FwdPrimer)
            THEN /\ ref' = Some(fields[1])
                 /\ amplicon_end' = amplicon_end
                 /\ IF IntOK(fields[2])
                    THEN /\ amplicon_start' = Some(IntOf(fields[2]))
                         /\ UNCHANGED <<pc, err>>
                    ELSE /\ amplicon_start' = amplicon_start
                         /\ Raise("ValueError: invalid literal for int()")
            ELSE IF Contains(name, amplicon_name) /\ Contains(name, RevPrimer)
            THEN /\ UNCHANGED <<ref, amplicon_start>>
                 /\ IF IntOK(fields[3])
                    THEN /\ amplicon_end' = Some(IntOf(fields[3]))
                         /\ pc' = IF AllSet(ref, amplicon_start, amplicon_end')
                                  THEN "parse_bed_file_end" ELSE pc
                         /\ err' = err
                    ELSE /\ amplicon_end' = amplicon_end
                         /\ Raise("ValueError: invalid literal for int()")
            ELSE /\ UNCHANGED <<ref, amplicon_start, amplicon_end, err>>
                 /\ pc' = IF AllSet(ref, amplicon_start, amplicon_end)
                          THEN "parse_bed_file_end" ELSE pc
    /\ UNCHANGED <<bed, amplicon_name, chrom, start, end>>
    /\ UNCHANGED <<bamVars, trimVars, outVars>>

\* after the loop (lines 44-47), and main's assignment of the result (line 106)
ScanEnd ==
    /\ pc \in {"parse_bed_file", "parse_bed_file_end"}
    /\ pc = "parse_bed_file" => line_no = Len(bed)
    /\ IF AllSet(ref, amplicon_start, amplicon_end)
       THEN /\ chrom' = Val(ref)
            /\ start' = Val(amplicon_start)
            /\ end' = Val(amplicon_end)
            /\ pc' = "extract_mapped_reads"
            /\ err' = err
       ELSE /\ Raise("ValueError: Amplicon not found in the BED file")
            /\ UNCHANGED <<chrom, start, end>>
    /\ UNCHANGED <<bedVars, bamVars, trimVars, outVars>>

----------------------------------------------------------------------------
(* extract_mapped_reads *)

\* a faulty variant: the start-boundary test is strict
OverlapsStrict(r, s, e) ==
    \/ r.reference_start >= s /\ r.reference_end <= e
    \/ r.reference_start <= s /\ r.reference_end > s
    \/ r.reference_start <= e /\ r.reference_end >= e

\* the three overlap conditions (lines 58-60)
Overlaps(r, s, e) ==
    \/ r.reference_start >= s /\ r.reference_end <= e
    \/ r.reference_start <= s /\ r.reference_end >= s
    \/ r.reference_start <= e /\ r.reference_end >= e

\* a faulty variant: no test of the query name
KeepsAnyName(r, s, e) == ~r.is_unmapped /\ Overlaps(r, s, e)

\* the test a fetched read passes to be appended (lines 57-64)
Keeps(r, s, e) ==
    /\ ~r.is_unmapped /\ Overlaps(r, s, e)
    /\ ~Contains(r.query_name, <<"junction">>)

----------------------------------------------------------------------------
(* trim_mapped_reads *)

\* a faulty variant: the start clip is applied whatever the read's start
StartClipAlways(r, s) ==
    LET k == s - r.reference_start
        cut == [r EXCEPT !.query_sequence = PySliceFrom(@, k)]
    IN  IF r.query_qualities = None
        THEN [read |-> cut, raised |-> TRUE]
        ELSE [read |-> [cut EXCEPT !.query_qualities = Some(PySliceFrom(Val(@), k)),
                                   !.reference_start = s],
              raised |-> FALSE]

\* lines 74-78; raised: subscripting query_qualities that is None (line 77)
StartClip(r, s) ==
    IF r.reference_start < s
    THEN LET k == s - r.reference_start
             cut == [r EXCEPT !.query_sequence = PySliceFrom(@, k)]
         IN  IF r.query_qualities = None
             THEN [read |-> cut, raised |-> TRUE]
             ELSE [read |-> [cut EXCEPT !.query_qualities = Some(PySliceFrom(Val(@), k)),
                                        !.reference_start = s],
                   raised |-> FALSE]
    ELSE [read |-> r, raised |-> FALSE]

\* a faulty variant: one element too many is retained
EndClipOffByOne(r, e) ==
    IF r.reference_end > e
    THEN LET m == e - r.reference_start + 1
             cut == [r EXCEPT !.query_sequence = PySliceTo(@, m)]
         IN  IF r.query_qualities = None
             THEN [read |-> cut, raised |-> TRUE]
             ELSE [read |-> [cut EXCEPT !.query_qualities = Some(PySliceTo(Val(@), m)),
                                        !.reference_end = e],
                   raised |-> FALSE]
    ELSE [read |-> r, raised |-> FALSE]

\* lines 79-83; raised: subscripting query_qualities that is None (line 82)
EndClip(r, e) ==
    IF r.reference_end > e
    THEN LET m == e - r.reference_start
             cut == [r EXCEPT !.query_sequence = PySliceTo(@, m)]
         IN  IF r.query_qualities = None
             THEN [read |-> cut, raised |-> TRUE]
             ELSE [read |-> [cut EXCEPT !.query_qualities = Some(PySliceTo(Val(@), m)),
                                        !.reference_end = e],
                   raised |-> FALSE]
    ELSE [read |-> r, raised |-> FALSE]

\* a faulty variant: the end clip is measured from the read's start before the start clip
TrimOneFromOldStart(r, s, e) ==
    LET a == StartClip(r, s)
        b == EndClip([a.read EXCEPT !.reference_start = r.reference_start], e)
    IN  IF a.raised THEN a
        ELSE [b EXCEPT !.read.reference_start = a.read.reference_start]

\* the body of `for read in mapped_reads` (lines 74-83): the start clip, then the
\* end clip on the read the start clip left
TrimOne(r, s, e) ==
    LET a == StartClip(r, s)
    IN  IF a.raised THEN a ELSE EndClip(a.read, e)

----------------------------------------------------------------------------
(* the stages as actions *)

\* line 53 of extract_mapped_reads, and line 55
ExtractBegin ==
    /\ pc = "extract_mapped_reads"
    /\ IF chrom \in references
       THEN /\ mapped_reads' = <<>>
            /\ n_fetched' = 0
            /\ pc' = "fetch"
            /\ err' = err
       ELSE /\ Raise("AssertionError: Contig not found in the BAM file")
            /\ UNCHANGED <<mapped_reads, n_fetched>>
    /\ UNCHANGED <<bedVars, chrom, start, end, references, read, trimVars, outVars>>

\* one iteration of `for read in bam.fetch(chrom, start, end)` (lines 56-65);
\* r is the read the fetch yields.  The BAM file is indexed, hence sorted by
\* coordinate: no read starts before the one yielded before it.  Nothing else is
\* assumed of what the fetch yields.
ExtractRead(r) ==
    /\ pc = "fetch"
    /\ n_fetched < MaxReads
    /\ read # None => Val(read).reference_start <= r.reference_start
    /\ n_fetched' = n_fetched + 1
    /\ read' = Some(r)
    /\ mapped_reads' = IF Keeps(r, start, end) THEN Append(mapped_reads, r)
                                                ELSE mapped_reads
    /\ UNCHANGED <<pc, err, bedVars, chrom, start, end, references, trimVars, outVars>>

\* the fetch is exhausted and the BAM file closed: line 67, then lines 109-112 of
\* main and line 72
ExtractReturn ==
    /\ pc = "fetch"
    /\ pc' = "trim_mapped_reads"
    /\ read' = None
    /\ n_fetched' = 0
    /\ trimmed_reads' = <<>>
    /\ trim_idx' = 0
    /\ UNCHANGED <<err, bedVars, chrom, start, end, references, mapped_reads, outVars>>

\* one iteration of `for read in mapped_reads` (lines 73-84); the read is changed
\* in place, so the list handed in holds the trimmed read too
TrimRead ==
    /\ pc = "trim_mapped_reads"
    /\ trim_idx < Len(mapped_reads)
    /\ LET t == TrimOne(mapped_reads[trim_idx + 1], start, end) IN
       /\ mapped_reads' = [mapped_reads EXCEPT ![trim_idx + 1] = t.read]
       /\ IF t.raised
          THEN /\ Raise("TypeError: 'NoneType' object is not subscriptable")
               /\ UNCHANGED <<trim_idx, trimmed_reads>>
          ELSE /\ trimmed_reads' = Append(trimmed_reads, t.read)
               /\ trim_idx' = trim_idx + 1
               /\ UNCHANGED <<pc, err>>
    /\ UNCHANGED <<bedVars, chrom, start, end, references, n_fetched, read, outVars>>

\* line 85, then lines 112-116 of main
TrimReturn ==
    /\ pc = "trim_mapped_reads"
    /\ trim_idx = Len(mapped_reads)
    /\ pc' = "write_mapped_reads_to_bam"
    /\ UNCHANGED <<err, bedVars, chrom, start, end, bamVars, trimVars, outVars>>

\* a faulty variant: the output file is opened before the header is taken
WriteBeginOpensFirst ==
    /\ pc = "write_mapped_reads_to_bam"
    /\ output' = Some([header |-> references, reads |-> <<>>])
    /\ IF trimmed_reads = <<>>
       THEN Raise("IndexError: list index out of range")
       ELSE pc' = "write" /\ err' = err
    /\ UNCHANGED <<bedVars, chrom, start, end, bamVars, trimVars, printed>>

\* lines 90-92: the header of mapped_reads[0], then the output file is opened
WriteBegin ==
    /\ pc = "write_mapped_reads_to_bam"
    /\ IF trimmed_reads = <<>>
       THEN /\ Raise("IndexError: list index out of range")
            /\ output' = output
       ELSE /\ output' = Some([header |-> references, reads |-> <<>>])
            /\ pc' = "write"
            /\ err' = err
    /\ UNCHANGED <<bedVars, chrom, start, end, bamVars, trimVars, printed>>

\* the loop `for read in mapped_reads: output.write(read)` (lines 93-94), the
\* file is closed; line 117 of main
WriteReads ==
    /\ pc = "write"
    /\ output' = Some([Val(output) EXCEPT !.reads = @ \o trimmed_reads])
    /\ printed' = TRUE
    /\ pc' = "done"
    /\ UNCHANGED <<err, bedVars, chrom, start, end, bamVars, trimVars>>

----------------------------------------------------------------------------
(* inputs *)

Tab == <<"\t">>
BedLine(c, s, e, n) == c \o Tab \o s \o Tab \o e \o Tab \o n \o <<"\n">>

Chr1 == <<"chr1">>
Chr2 == <<"chr2">>
Amp1 == <<"AMP1">>
Amp2 == <<"AMP2">>

\* the lines a BED file is made of: forward and reverse primers of AMP1 (one reverse
\* primer at lower coordinates than the forward ones), a primer of AMP2, a line
\* with a score column, a line without a name, a line whose start is no number
BedLines ==
    { BedLine(Chr1, <<"1">>, <<"2">>, Amp1 \o FwdPrimer),
      BedLine(Chr1, <<"2">>, <<"3">>, Amp1 \o FwdPrimer),
      BedLine(Chr1, <<"1", "0">>, <<"1", "2">>, Amp1 \o RevPrimer),
      BedLine(Chr1, <<"0">>, <<"1">>, Amp1 \o RevPrimer),
      BedLine(Chr2, <<"0">>, <<"1">>, Amp2 \o FwdPrimer),
      BedLine(Chr1, <<"1">>, <<"2">>, Amp1 \o FwdPrimer) \o Tab \o <<"6", "0">>,
      Chr1 \o Tab \o <<"1">> \o Tab \o <<"2">> \o <<"\n">>,
      BedLine(Chr1, <<"x">>, <<"2">>, Amp1 \o FwdPrimer) }

BedFiles == UNION { [1..n -> BedLines] : n \in 0..MaxBedLines }

Coords == 0..MaxCoord

\* a read aligned to [rs, re) with n bases: base i carries the reference position
\* it was read at, quality i its index in the read; the CIGAR (its count of query
\* bases) is never assigned by this program
Read(name, unmapped, rs, re, n, qual) ==
    [query_name |-> name, is_unmapped |-> unmapped,
     reference_start |-> rs, reference_end |-> re,
     query_sequence |-> [i \in 1..n |-> rs + i - 1],
     query_qualities |-> IF qual THEN Some([i \in 1..n |-> i - 1]) ELSE None,
     cigar |-> n]

PlainName == <<"read">>
JunctionName == <<"read", "_", "junction">>

\* query length minus reference length: a read with two deleted bases, or none
LenDeltas == {-2, 0}

\* the reads aligned to [rs, re): mapped ones of each length, one without
\* qualities, an unmapped one, and the two with "junction" in the name
ReadsAt(rs, re) ==
    { Read(PlainName, FALSE, rs, re, re - rs + d, TRUE) :
        d \in { x \in LenDeltas : re - rs + x >= 0 } }
    \cup { Read(PlainName, FALSE, rs, re, re - rs, FALSE),
           Read(PlainName, TRUE, rs, re, re - rs, TRUE),
           Read(JunctionName, FALSE, rs, re, re - rs, TRUE),
           Read(JunctionName, TRUE, rs, re, re - rs, TRUE) }

Reads == UNION { ReadsAt(p[1], p[2]) : p \in { q \in Coords \X Coords : q[1] <= q[2] } }

----------------------------------------------------------------------------
(* specification *)

\* what no stage has touched yet
Fresh ==
    /\ err = "none"
    /\ line_no = 0 /\ ref = None /\ amplicon_start = None /\ amplicon_end = None
    /\ references = {Chr1}
    /\ n_fetched = 0 /\ read = None /\ mapped_reads = <<>>
    /\ trim_idx = 0 /\ trimmed_reads = <<>>
    /\ output = None /\ printed = FALSE

\* main is started on a BED file (line 106); chrom, start and end are unbound
InitMain ==
    /\ pc = "parse_bed_file"
    /\ bed \in BedFiles
    /\ amplicon_name \in {Amp1, Amp2}
    /\ chrom = <<>> /\ start = -1 /\ end = -1
    /\ Fresh

\* the stages of lines 109-117 are started on an interval
InitStages ==
    /\ pc = "extract_mapped_reads"
    /\ bed = <<>>
    /\ amplicon_name = Amp1
    /\ chrom \in {Chr1, Chr2}
    /\ start \in Coords /\ end \in Coords
    /\ Fresh

Init == InitMain \/ InitStages

Next ==
    \/ ScanLine
    \/ ScanEnd
    \/ ExtractBegin
    \/ \E r \in Reads : ExtractRead(r)
    \/ ExtractReturn
    \/ TrimRead
    \/ TrimReturn
    \/ WriteBegin
    \/ WriteReads

Spec == Init /\ [][Next]_vars

----------------------------------------------------------------------------
(* what the claims speak of *)

\* all the fields of a BED line, and a line with its four fields and numeric bounds
AllFields(line) == Split(Strip(line))
WellFormed(line) ==
    /\ Len(AllFields(line)) >= 4
    /\ IntOK(AllFields(line)[2]) /\ IntOK(AllFields(line)[3])

IsForwardRecord(line) ==
    /\ WellFormed(line)
    /\ Contains(AllFields(line)[4], amplicon_name)
    /\ Contains(AllFields(line)[4], FwdPrimer)

IsReverseRecord(line) ==
    /\ WellFormed(line)
    /\ Contains(AllFields(line)[4], amplicon_name)
    /\ Contains(AllFields(line)[4], RevPrimer)

\* parse_bed_file is over, on a file of well-formed lines that holds a forward
\* and a reverse primer record of the amplicon
LookupOverOnGoodFile ==
    /\ pc \notin {"parse_bed_file", "parse_bed_file_end"}
    /\ \A i \in 1..Len(bed) : WellFormed(bed[i])
    /\ \E i \in 1..Len(bed) : IsForwardRecord(bed[i])
    /\ \E i \in 1..Len(bed) : IsReverseRecord(bed[i])

\* what parse_bed_file raises
LookupErrors ==
    { "ValueError: not enough values to unpack",
      "ValueError: invalid literal for int()",
      "ValueError: Amplicon not found in the BED file" }

FirstForward ==
    CHOOSE i \in 1..Len(bed) :
        IsForwardRecord(bed[i]) /\ \A k \in 1..(i - 1) : ~IsForwardRecord(bed[k])

HasJunction(r) == Contains(r.query_name, <<"junction">>)

\* the elements of s at the 0-based positions a <= p < b
Positions(s, a, b) == SubSeq(s, a + 1, Min(b, Len(s)))

\* an iteration of the loop of trim_mapped_reads is about to run on TrimOld; after
\* it the list holds TrimNew in its place
TrimRuns == pc = "trim_mapped_reads" /\ trim_idx < Len(mapped_reads)
TrimOld == mapped_reads[trim_idx + 1]
TrimNew == mapped_reads'[trim_idx + 1]

----------------------------------------------------------------------------
(* claims *)

\* C1: parse_bed_file, on a file of well-formed records that holds a forward and a
\* reverse primer record of the amplicon, returns (chrom and start of a forward
\* record, end of a reverse record) and raises nothing.
C1_LookupReturnsInterval ==
    LookupOverOnGoodFile =>
        /\ err \notin LookupErrors
        /\ \E i, j \in 1..Len(bed) :
              /\ IsForwardRecord(bed[i]) /\ IsReverseRecord(bed[j])
              /\ chrom = AllFields(bed[i])[1]
              /\ start = IntOf(AllFields(bed[i])[2])
              /\ end = IntOf(AllFields(bed[j])[3])

\* C2: a run that has failed has created no output file and printed no message;
\* the output file exists only once the reads are selected and all trimmed, the
\* list is not empty and nothing was raised; a failed run takes no further step.
C2_NoOutputOnFailure ==
    /\ pc = "error" => err # "none" /\ output = None /\ ~printed /\ ~ENABLED Next
    /\ err # "none" => pc = "error"
    /\ output # None =>
          /\ pc \in {"write", "done"}
          /\ trimmed_reads # <<>>
          /\ Len(trimmed_reads) = Len(mapped_reads)
    /\ printed => pc = "done" /\ Val(output).reads = trimmed_reads

\* reached: the second selected read has no qualities and needs trimming
C2_Witness ==
    /\ pc = "error"
    /\ err = "TypeError: 'NoneType' object is not subscriptable"
    /\ Len(trimmed_reads) = 1
    /\ output = None

\* C3: for start <= end, a mapped read without "junction" in its name that the
\* fetch yields is appended exactly when read.start <= end and read.end >= start.
C3_KeptIffOverlap ==
    [][ ( /\ pc = "fetch" /\ n_fetched' = n_fetched + 1
          /\ start <= end
          /\ ~Val(read').is_unmapped /\ ~HasJunction(Val(read')) )
        => IF Val(read').reference_start <= end /\ Val(read').reference_end >= start
           THEN mapped_reads' = Append(mapped_reads, Val(read'))
           ELSE mapped_reads' = mapped_reads ]_vars

\* reached: a read that ends where the interval starts was kept
C3_Witness ==
    /\ pc = "fetch" /\ read # None /\ start < end
    /\ ~Val(read).is_unmapped /\ ~HasJunction(Val(read))
    /\ Val(read).reference_start < start /\ Val(read).reference_end = start
    /\ mapped_reads # <<>> /\ mapped_reads[Len(mapped_reads)] = Val(read)

\* C4, as stated: a read with start before and end after the interval is trimmed
\* to the interval, its sequence and quality being the original elements at
\* [interval.start - old start, interval.end - old start), interval.end -
\* interval.start of them.
C4_AsStated ==
    [][ (TrimRuns /\ trim_idx' = trim_idx + 1
         /\ TrimOld.reference_start < start /\ TrimOld.reference_end > end)
        => LET a == start - TrimOld.reference_start
               b == end - TrimOld.reference_start
           IN  /\ TrimNew.reference_start = start /\ TrimNew.reference_end = end
               /\ TrimNew.query_sequence = Positions(TrimOld.query_sequence, a, b)
               /\ TrimNew.query_qualities
                     = Some(Positions(Val(TrimOld.query_qualities), a, b))
               /\ Len(TrimNew.query_sequence) = end - start
               /\ Len(Val(TrimNew.query_qualities)) = end - start ]_vars

\* C4, amended: the same, for an interval with start <= end and a read whose
\* sequence and quality hold at least interval.end - old start elements.
C4_BothEndsClipped ==
    [][ (TrimRuns /\ trim_idx' = trim_idx + 1
         /\ TrimOld.reference_start < start /\ TrimOld.reference_end > end
         /\ start <= end
         /\ Len(TrimOld.query_sequence) >= end - TrimOld.reference_start
         /\ Len(Val(TrimOld.query_qualities)) >= end - TrimOld.reference_start)
        => LET a == start - TrimOld.reference_start
               b == end - TrimOld.reference_start
           IN  /\ TrimNew.reference_start = start /\ TrimNew.reference_end = end
               /\ TrimNew.query_sequence = Positions(TrimOld.query_sequence, a, b)
               /\ TrimNew.query_qualities
                     = Some(Positions(Val(TrimOld.query_qualities), a, b))
               /\ Len(TrimNew.query_sequence) = end - start
               /\ Len(Val(TrimNew.query_qualities)) = end - start ]_vars

\* reached: a trimmed read that lost bases at the front (its first quality is not
\* the read's first) and at the back (its CIGAR counts bases beyond its last)
C4_Witness ==
    /\ pc = "trim_mapped_reads" /\ start < end
    /\ \E i \in 1..trim_idx :
          LET r == mapped_reads[i] IN
          /\ r.reference_start = start /\ r.reference_end = end
          /\ r.query_qualities # None
          /\ Len(r.query_sequence) = end - start
          /\ Len(Val(r.query_qualities)) = end - start
          /\ Val(r.query_qualities)[1] > 0
          /\ Val(r.query_qualities)[end - start] + 1 < r.cigar

\* C5: trimming leaves a read that lies within the interval as it is and appends
\* it to the result; the list returned holds the reads of the list given, in its
\* order.
C5_InsideReadUntouched ==
    [][ /\ (TrimRuns /\ start <= TrimOld.reference_start
                     /\ TrimOld.reference_end <= end)
           => /\ mapped_reads' = mapped_reads
              /\ trimmed_reads' = Append(trimmed_reads, TrimOld)
              /\ pc' = pc
        /\ (pc = "trim_mapped_reads" /\ pc' = "write_mapped_reads_to_bam")
           => trimmed_reads' = mapped_reads' ]_vars

\* reached: two different reads strictly inside the interval have been returned
C5_Witness ==
    /\ pc = "write_mapped_reads_to_bam"
    /\ Len(trimmed_reads) = 2
    /\ trimmed_reads[1] # trimmed_reads[2]
    /\ \A i \in 1..2 : /\ start < trimmed_reads[i].reference_start
                       /\ trimmed_reads[i].reference_end < end
                       /\ trimmed_reads[i].query_sequence # <<>>

\* C6: write_mapped_reads_to_bam, given no reads, fails with a dedicated
\* empty-result error; given reads, it writes exactly them, in their order.
C6_EmptyResultError ==
    [][ /\ (pc = "write_mapped_reads_to_bam" /\ trimmed_reads = <<>>)
           => pc' = "error" /\ err' = "EmptyResultError: nothing to write"
        /\ (pc = "write" /\ pc' = "done")
           => Val(output').reads = trimmed_reads ]_vars

\* C7: no read with "junction" in its name is in the list of selected reads, and
\* every read the fetch yields is either left out or appended at the end.
C7_NoJunctionInOrder ==
    [][ /\ \A i \in 1..Len(mapped_reads') : ~HasJunction(mapped_reads'[i])
        /\ (pc = "fetch" /\ n_fetched' = n_fetched + 1)
           => \/ mapped_reads' = mapped_reads
              \/ mapped_reads' = Append(mapped_reads, Val(read')) ]_vars

\* reached: after a kept read, the fetch yielded a mapped read inside the interval
\* with "junction" in its name, and the list did not grow
C7_Witness ==
    /\ pc = "fetch" /\ n_fetched = 2 /\ Len(mapped_reads) = 1
    /\ HasJunction(Val(read)) /\ ~Val(read).is_unmapped
    /\ start <= Val(read).reference_start /\ Val(read).reference_end <= end

\* C8: the first forward primer record wins: when the scan of a file of
\* well-formed records with a forward and a reverse primer record is over, the
\* reference name and the start are those of the first forward primer record.
C8_FirstForwardWins ==
    LookupOverOnGoodFile =>
        /\ ref = Some(AllFields(bed[FirstForward])[1])
        /\ amplicon_start = Some(IntOf(AllFields(bed[FirstForward])[2]))

\* C10: for start <= end, a selected read whose sequence and quality hold
\* reference_end - reference_start elements is trimmed to start = max(old start,
\* interval.start) and end = min(old end, interval.end), within the interval, with
\* sequence and quality of length end - start.
C10_TrimmedWithinInterval ==
    [][ (TrimRuns /\ start <= end /\ Keeps(TrimOld, start, end)
         /\ TrimOld.query_qualities # None
         /\ Len(TrimOld.query_sequence)
               = TrimOld.reference_end - TrimOld.reference_start
         /\ Len(Val(TrimOld.query_qualities))
               = TrimOld.reference_end - TrimOld.reference_start)
        => /\ pc' # "error"
           /\ TrimNew.reference_start = Max(TrimOld.reference_start, start)
           /\ TrimNew.reference_end = Min(TrimOld.reference_end, end)
           /\ start <= TrimNew.reference_start
           /\ TrimNew.reference_start <= TrimNew.reference_end
           /\ TrimNew.reference_end <= end
           /\ Len(TrimNew.query_sequence)
                 = TrimNew.reference_end - TrimNew.reference_start
           /\ Len(Val(TrimNew.query_qualities))
                 = TrimNew.reference_end - TrimNew.reference_start ]_vars

\* reached: a trimmed read that lost bases at the back only
C10_Witness ==
    /\ pc = "trim_mapped_reads" /\ start < end
    /\ \E i \in 1..trim_idx :
          LET r == mapped_reads[i] IN
          /\ r.reference_start > start /\ r.reference_end = end
          /\ r.query_qualities # None
          /\ Len(r.query_sequence) = r.reference_end - r.reference_start
          /\ Len(Val(r.query_qualities)) = Len(r.query_sequence)
          /\ Len(r.query_sequence) > 0
          /\ r.cigar > Len(r.query_sequence)

====
